---- MODULE Spec2Model ----
(***************************************************************************)
(* State-machine model of the ShellCheck adapter for CudaText/CudaLint     *)
(* (src/linter.py): executable discovery, config loading and validation,   *)
(* command construction, and the config-open / help menu commands.         *)
(*                                                                         *)
(* A Python str is modelled as a sequence of one-character strings, so     *)
(* that trimming, prefix tests, line splitting and JSON decoding are       *)
(* computed character by character.  Two characters outside ASCII are      *)
(* written by their code point: "U+00B2" (SUPERSCRIPT TWO) and "U+0663"    *)
(* (ARABIC-INDIC DIGIT THREE).  None is modelled as the empty sequence     *)
(* where the Python value is a path (a path is never the empty string).    *)
(***************************************************************************)
EXTENDS Integers, Sequences, FiniteSets, TLC

VARIABLES
    which,      \* what shutil.which('shellcheck') returns (None = <<>>)
    bundled,    \* the bundled copy: [isfile, nt, exc] = os.path.isfile(bundled),
                \* os.name == 'nt', the exception the try body raises
    disk,       \* the config file at the settings path: [exists, mode, text]
    inst,       \* the most recently constructed ShellCheck instance
    call        \* what the most recent handler did: [op, host, log, ...]

vars == <<which, bundled, disk, inst, call>>

----------------------------------------------------------------------------
(* Bounds of the model *)

\* longest ignore_codes array enumerated in the initial config files
MaxCodes == 2

\* the interpreter's recursion limit seen by the JSON scanner, scaled down
RecursionLimit == 3

----------------------------------------------------------------------------
(* Python str operations *)

Min(S) == CHOOSE m \in S : \A n \in S : m <= n
Max(S) == CHOOSE m \in S : \A n \in S : m >= n

AsciiDigits == {"0", "1", "2", "3", "4", "5", "6", "7", "8", "9"}

\* characters outside ASCII for which str.isdigit() is true
UnicodeDigits == {"U+00B2", "U+0663"}

\* characters str.strip() removes
Whitespace == {" ", "\n", "\t"}

isdigit(s) ==
    /\ Len(s) > 0
    /\ \A i \in 1..Len(s) : s[i] \in AsciiDigits \cup UnicodeDigits

startswith(s, prefix) ==
    /\ Len(s) >= Len(prefix)
    /\ SubSeq(s, 1, Len(prefix)) = prefix

strip(s) ==
    LET keep == {i \in 1..Len(s) : s[i] \notin Whitespace}
    IN  IF keep = {} THEN <<>> ELSE SubSeq(s, Min(keep), Max(keep))

RECURSIVE join(_)
join(strs) ==
    IF strs = <<>> THEN <<>> ELSE Head(strs) \o join(Tail(strs))

\* iterating a text file: each line keeps its terminating newline
RECURSIVE readlines(_)
readlines(text) ==
    IF text = <<>> THEN <<>>
    ELSE LET nl == {i \in 1..Len(text) : text[i] = "\n"}
         IN  IF nl = {} THEN <<text>>
             ELSE <<SubSeq(text, 1, Min(nl))>>
                      \o readlines(SubSeq(text, Min(nl) + 1, Len(text)))

----------------------------------------------------------------------------
(* json.loads: the decoder behind line 120 *)

JStr(s) == [t |-> "str", s |-> s]
JNum(d) == [t |-> "num", n |-> d]
JLit(l) == [t |-> "lit", l |-> l]
JArr(a) == [t |-> "arr", a |-> a]
JObj(o) == [t |-> "obj", o |-> o]

Ok(v, i) == [st |-> "ok", v |-> v, i |-> i]
Raise(e) == [st |-> e, v |-> JLit("null"), i |-> 0]

JsonWhitespace == {" ", "\t", "\n", "\r"}

\* characters a JSON string may not hold unescaped
ControlChars == {"\n", "\t", "\r"}

Quote == "\""

skip_ws(s, i) ==
    LET stop == {j \in i..Len(s) : s[j] \notin JsonWhitespace}
    IN  IF stop = {} THEN IF i > Len(s) THEN i ELSE Len(s) + 1 ELSE Min(stop)

at(s, i, word) ==
    /\ i + Len(word) - 1 <= Len(s)
    /\ SubSeq(s, i, i + Len(word) - 1) = word

\* i is the index after the opening quote
scanstring(s, i) ==
    LET close == {j \in i..Len(s) : s[j] = Quote}
    IN  IF close = {} THEN Raise("JSONDecodeError")
        ELSE LET e == Min(close)
             IN  IF \E j \in i..(e - 1) : s[j] \in ControlChars
                 THEN Raise("JSONDecodeError")
                 ELSE Ok(JStr(SubSeq(s, i, e - 1)), e + 1)

\* i is the index of an ASCII digit: 0 | [1-9][0-9]*
match_number(s, i) ==
    IF s[i] = "0" THEN Ok(JNum(<<"0">>), i + 1)
    ELSE LET stop == {j \in i..Len(s) : s[j] \notin AsciiDigits}
             e == IF stop = {} THEN Len(s) + 1 ELSE Min(stop)
         IN  Ok(JNum(SubSeq(s, i, e - 1)), e)

RECURSIVE scan_once(_, _, _)
RECURSIVE array_items(_, _, _, _)
RECURSIVE object_pairs(_, _, _, _)

\* j is the index of the first non-blank character after an item
array_delim(s, j, depth, items) ==
    IF j > Len(s) THEN Raise("JSONDecodeError")
    ELSE IF s[j] = "]" THEN Ok(JArr(items), j + 1)
    ELSE IF s[j] = "," THEN array_items(s, skip_ws(s, j + 1), depth, items)
    ELSE Raise("JSONDecodeError")

\* r is what the scanner made of the item
array_item(s, r, depth, acc) ==
    IF r.st # "ok" THEN r
    ELSE array_delim(s, skip_ws(s, r.i), depth, Append(acc, r.v))

\* i is the index of the first character of an item
array_items(s, i, depth, acc) ==
    array_item(s, scan_once(s, i, depth), depth, acc)

\* i is the index after '['
parse_array(s, i, depth) ==
    IF at(s, skip_ws(s, i), <<"]">>) THEN Ok(JArr(<<>>), skip_ws(s, i) + 1)
    ELSE array_items(s, skip_ws(s, i), depth, <<>>)

\* j is the index of the first non-blank character after a value
object_delim(s, j, depth, pairs) ==
    IF j > Len(s) THEN Raise("JSONDecodeError")
    ELSE IF s[j] = "}" THEN Ok(JObj(pairs), j + 1)
    ELSE IF s[j] = "," THEN object_pairs(s, skip_ws(s, j + 1), depth, pairs)
    ELSE Raise("JSONDecodeError")

\* r is what the scanner made of the value of property key
object_value(s, r, depth, acc, key) ==
    IF r.st # "ok" THEN r
    ELSE object_delim(s, skip_ws(s, r.i), depth,
                      Append(acc, [k |-> key, v |-> r.v]))

\* c is the index where the colon must stand
object_colon(s, c, depth, acc, key) ==
    IF ~ at(s, c, <<":">>) THEN Raise("JSONDecodeError")
    ELSE object_value(s, scan_once(s, skip_ws(s, c + 1), depth), depth, acc, key)

\* k is what scanstring made of the property name
object_key(s, k, depth, acc) ==
    IF k.st # "ok" THEN k
    ELSE object_colon(s, skip_ws(s, k.i), depth, acc, k.v.s)

\* i is the index where a property name must open
object_pairs(s, i, depth, acc) ==
    IF ~ at(s, i, <<Quote>>) THEN Raise("JSONDecodeError")
    ELSE object_key(s, scanstring(s, i + 1), depth, acc)

\* i is the index after '{'
parse_object(s, i, depth) ==
    IF at(s, skip_ws(s, i), <<"}">>) THEN Ok(JObj(<<>>), skip_ws(s, i) + 1)
    ELSE object_pairs(s, skip_ws(s, i), depth, <<>>)

\* every nested value enters the scanner once more; past the recursion
\* limit the interpreter raises RecursionError
scan_once(s, i, depth) ==
    IF depth > RecursionLimit THEN Raise("RecursionError")
    ELSE IF i > Len(s) THEN Raise("JSONDecodeError")
    ELSE IF s[i] = Quote THEN scanstring(s, i + 1)
    ELSE IF s[i] = "{" THEN parse_object(s, i + 1, depth + 1)
    ELSE IF s[i] = "[" THEN parse_array(s, i + 1, depth + 1)
    ELSE IF at(s, i, <<"n", "u", "l", "l">>) THEN Ok(JLit("null"), i + 4)
    ELSE IF at(s, i, <<"t", "r", "u", "e">>) THEN Ok(JLit("true"), i + 4)
    ELSE IF at(s, i, <<"f", "a", "l", "s", "e">>) THEN Ok(JLit("false"), i + 5)
    ELSE IF s[i] \in AsciiDigits THEN match_number(s, i)
    ELSE IF at(s, i, <<"N", "a", "N">>) THEN Ok(JLit("NaN"), i + 3)
    ELSE Raise("JSONDecodeError")

\* r is the value decoded; anything but blanks after it is "Extra data"
decode_end(s, r) ==
    IF r.st # "ok" THEN r
    ELSE IF skip_ws(s, r.i) <= Len(s) THEN Raise("JSONDecodeError")
    ELSE r

json_loads(s) == decode_end(s, scan_once(s, skip_ws(s, 1), 1))

\* dict.get(key, default) on a decoded object: the last pair of a repeated key wins
dict_get(obj, key, default) ==
    LET hits == {i \in 1..Len(obj.o) : obj.o[i].k = key}
    IN  IF hits = {} THEN default ELSE obj.o[Max(hits)].v

----------------------------------------------------------------------------
(* String constants of the plugin *)

None == <<>>

S_shellcheck == <<"s", "h", "e", "l", "l", "c", "h", "e", "c", "k">>
S_f == <<"-", "f">>
S_gcc == <<"g", "c", "c">>
S_dash == <<"-">>
S_e == <<"-", "e">>
S_SC == <<"S", "C">>
S_ignore_codes == <<"i", "g", "n", "o", "r", "e", "_", "c", "o", "d", "e", "s">>
S_ShellCheck == <<"S", "h", "e", "l", "l", "C", "h", "e", "c", "k">>
S_exe == <<".", "e", "x", "e">>

\* ShellCheck.executable, ShellCheck.cmd: the class attributes
DefaultExecutable == S_shellcheck
DefaultCmd == <<S_shellcheck, S_f, S_gcc, S_dash>>

\* Command.DEFAULT_CONFIG
DEFAULT_CONFIG ==
    JObj(<<[k |-> S_ignore_codes,
            v |-> JArr(<<JStr(<<"S", "C", "2", "0", "3", "4">>), JStr(<<"S", "C", "2", "1", "5", "4">>), JStr(<<"S", "C", "2", "0", "8", "6">>)>>)]>>)

\* the directory three levels above linter.py, as os.path.dirname leaves it
BaseDir == <<"/", "a", "p", "p">>

----------------------------------------------------------------------------
(* ShellCheck: the linter adapter *)

\* os.path.join(base, 'ShellCheck', exe), exe chosen by os.name
bundled_path(nt) ==
    BaseDir \o <<"/">> \o S_ShellCheck \o <<"/">> \o S_shellcheck
        \o (IF nt THEN S_exe ELSE <<>>)

\* fault: the bundled copy is tried before the search path
_find_executable_bundled_first(w, b) ==
    IF b.exc = "none" /\ b.isfile
    THEN [path |-> bundled_path(b.nt), raised |-> "none",
          log |-> <<"Using bundled version">>]
    ELSE [path |-> w, raised |-> "none", log |-> <<>>]

\* [path, raised, log]; w = shutil.which('shellcheck'), b = the bundled location
_find_executable(w, b) ==
    IF w # None
    THEN [path |-> w, raised |-> "none", log |-> <<"Found in PATH">>]
    ELSE IF b.exc \in {"NameError", "AttributeError"}
    THEN [path |-> None, raised |-> "none",
          log |-> <<"WARNING - Cannot locate bundled version">>]
    ELSE IF b.exc # "none"
    THEN [path |-> None, raised |-> b.exc, log |-> <<>>]
    ELSE IF b.isfile
    THEN [path |-> bundled_path(b.nt), raised |-> "none",
          log |-> <<"Using bundled version">>]
    ELSE [path |-> None, raised |-> "none",
          log |-> <<"WARNING - Not found in PATH or">>]

\* fault: only '//' marks a comment line
keep_line_slashes_only(ln) ==
    /\ strip(ln) # <<>>
    /\ ~ startswith(strip(ln), <<"/", "/">>)

\* the filter of the list comprehension over the file's lines
keep_line(ln) ==
    LET s == strip(ln)
    IN  /\ s # <<>>
        /\ ~ startswith(s, <<"/", "/">>)
        /\ ~ startswith(s, <<"#">>)

strip_comments(text) == strip(join(SelectSeq(readlines(text), keep_line)))

\* [none, text, log]; none is TRUE when the function returns None
_read_config_file(file) ==
    IF file.mode = "utf8"
    THEN [none |-> FALSE, text |-> strip_comments(file.text), log |-> <<>>]
    ELSE IF file.mode = "legacy"
    \* UnicodeDecodeError under UTF-8, the default encoding decodes
    THEN [none |-> FALSE, text |-> strip_comments(file.text), log |-> <<>>]
    ELSE IF file.mode = "undecodable"
    \* UnicodeDecodeError under both encodings
    THEN [none |-> TRUE, text |-> <<>>,
          log |-> <<"ERROR - Failed to read config with fallback encoding">>]
    \* "unreadable": open() raises OSError
    ELSE [none |-> TRUE, text |-> <<>>, log |-> <<"ERROR - Failed to read config">>]

\* isinstance(c, str) and c.startswith('SC') and c[2:].isdigit()
is_valid_code(c) ==
    /\ c.t = "str"
    /\ startswith(c.s, S_SC)
    /\ isdigit(SubSeq(c.s, 3, Len(c.s)))

\* c in valid, for a list valid of str
in_list(c, valid) ==
    /\ c.t = "str"
    /\ \E i \in 1..Len(valid) : valid[i].s = c.s

\* [raised, codes, parsed, invalid, log]
Loaded(codes, parsed, invalid, log) ==
    [raised |-> "none", codes |-> codes, parsed |-> parsed,
     invalid |-> invalid, log |-> log]

_parse_and_validate_codes(content) ==
    LET r == json_loads(content)
    IN  IF r.st = "JSONDecodeError"
        THEN Loaded(<<>>, content, <<>>, <<"ERROR - Invalid JSON in config">>)
        ELSE IF r.st # "ok"
        THEN [raised |-> r.st, codes |-> <<>>, parsed |-> content,
              invalid |-> <<>>, log |-> <<>>]
        ELSE IF r.v.t # "obj"
        THEN Loaded(<<>>, content, <<>>, <<"ERROR - Config must be JSON object">>)
        ELSE LET codes == dict_get(r.v, S_ignore_codes, JArr(<<>>))
             IN  IF codes.t # "arr"
                 THEN Loaded(<<>>, content, <<>>,
                             <<"ERROR - 'ignore_codes' must be array">>)
                 ELSE LET valid == SelectSeq(codes.a, is_valid_code)
                          notin(c) == ~ in_list(c, valid)
                          invalid == IF Len(valid) # Len(codes.a)
                                     THEN SelectSeq(codes.a, notin)
                                     ELSE <<>>
                      IN  Loaded([i \in 1..Len(valid) |-> valid[i].s], content,
                                 invalid,
                                 (IF Len(valid) # Len(codes.a)
                                  THEN <<"Warning - Invalid codes ignored">>
                                  ELSE <<>>)
                                 \o (IF valid # <<>>
                                     THEN <<"Loaded ignore codes">> ELSE <<>>))

_load_config(file) ==
    IF ~ file.exists THEN Loaded(<<>>, None, <<>>, <<>>)
    ELSE LET content == _read_config_file(file)
         IN  IF content.none \/ content.text = <<>>
             THEN Loaded(<<>>, None, <<>>, content.log)
             ELSE LET p == _parse_and_validate_codes(content.text)
                  IN  [p EXCEPT !.log = content.log \o p.log]

RECURSIVE extend_cmd(_, _)
extend_cmd(cmd, codes) ==
    IF codes = <<>> THEN cmd
    ELSE extend_cmd(cmd \o <<S_e, Head(codes)>>, Tail(codes))

\* fault: the flag pairs are prepended, so they come out in reverse order
_build_cmd_reversed(shellcheck_path, ignore_codes) ==
    extend_cmd(<<shellcheck_path, S_f, S_gcc, S_dash>>,
               [i \in 1..Len(ignore_codes) |->
                    ignore_codes[Len(ignore_codes) + 1 - i]])

_build_cmd(shellcheck_path, ignore_codes) ==
    extend_cmd(<<shellcheck_path, S_f, S_gcc, S_dash>>, ignore_codes)

_log_status(ignore_codes) ==
    <<IF Len(ignore_codes) # 1 THEN "Active with n ignore rules"
      ELSE "Active with 1 ignore rule">>
    \o (IF ignore_codes # <<>> THEN <<"Ignoring">> ELSE <<>>)

\* the instance a call of ShellCheck.__init__ leaves behind
Instance(raised, path, has_codes, codes, exe, cmd) ==
    [constructed |-> TRUE, raised |-> raised, shellcheck_path |-> path,
     has_ignore_codes |-> has_codes, ignore_codes |-> codes,
     executable |-> exe, cmd |-> cmd]

NoInstance ==
    [constructed |-> FALSE, raised |-> "none", shellcheck_path |-> None,
     has_ignore_codes |-> FALSE, ignore_codes |-> <<>>,
     executable |-> DefaultExecutable, cmd |-> DefaultCmd]

\* what a handler did: host calls made, lines logged, and for __init__ the
\* text handed to json.loads, the entries reported invalid, and whether
\* _load_config and _build_cmd ran
Call(op, host, log) ==
    [op |-> op, host |-> host, log |-> log, parsed |-> None,
     invalid |-> <<>>, loaded |-> FALSE, built |-> FALSE]

----------------------------------------------------------------------------
(* Command: the menu commands *)

Indent(n) == [i \in 1..n |-> " "]

quoted(s) == <<Quote>> \o s \o <<Quote>>

RECURSIVE dump_items(_)
dump_items(a) ==
    IF a = <<>> THEN <<>>
    ELSE Indent(4) \o quoted(Head(a).s)
             \o (IF Len(a) > 1 THEN <<",", "\n">> ELSE <<>>)
             \o dump_items(Tail(a))

\* json.dump(obj, f, indent=2) for an object of one key holding an array of str
json_dump(obj) ==
    LET p == obj.o[1]
    IN  <<"{", "\n">> \o Indent(2) \o quoted(p.k) \o <<":", " ">>
            \o (IF p.v.a = <<>> THEN <<"[", "]">>
                ELSE <<"[", "\n">> \o dump_items(p.v.a) \o <<"\n">>
                         \o Indent(2) \o <<"]">>)
            \o <<"\n", "}">>

----------------------------------------------------------------------------
(* The environment the plugin starts in *)

WhichPath == <<"/", "b", "i", "n", "/">> \o S_shellcheck

\* source text of the array entries written into the initial config files
EntryTexts ==
    { quoted(<<"S", "C", "1">>),         \* a well-formed code
      quoted(<<"S", "C", "2", "0">>),    \* another one
      quoted(<<"s", "c", "1">>),         \* lowercase prefix
      quoted(<<"S", "C">>),              \* no digits
      quoted(<<"S", "C", "1", "x">>),    \* trailing non-digit
      quoted(<<"1">>),                   \* no prefix
      quoted(<<"S", "C", "U+00B2">>),    \* a digit outside ASCII
      <<"7">> }                          \* not a string

SC1 == quoted(<<"S", "C", "1">>)

RECURSIVE comma_join(_)
comma_join(texts) ==
    IF texts = <<>> THEN <<>>
    ELSE Head(texts) \o (IF Len(texts) > 1 THEN <<",", " ">> ELSE <<>>)
             \o comma_join(Tail(texts))

\* {"ignore_codes": [e1, e2, ...]}
ConfigText(entries) ==
    <<"{">> \o quoted(S_ignore_codes) \o <<":", " ", "[">>
        \o comma_join(entries) \o <<"]", "}">>

EntrySeqs == UNION {[1..n -> EntryTexts] : n \in 0..MaxCodes}

CommentLine == <<"/", "/", " ", "c", "o", "m", "m", "e", "n", "t", "\n">>

HashLine == <<" ", "#", " ", "x", "\n">>

Repeat(c, n) == [i \in 1..n |-> c]

\* the end-to-end scenario of the plugin's documentation
ScenarioText ==
    CommentLine \o ConfigText(<<quoted(<<"S", "C", "2", "0", "3", "4">>),
                                quoted(<<"s", "c", "2", "1", "5", "4">>),
                                quoted(<<"S", "C", "9", "9">>)>>)

\* a document with comment lines between its lines, ending in a newline
AnnotatedText ==
    <<"{", "\n">> \o HashLine \o quoted(S_ignore_codes) \o <<":", "\n">>
        \o CommentLine \o <<" ", "[">> \o SC1 \o <<"]", "\n", "}", "\n">>

OtherTexts ==
    { <<>>,                                              \* empty file
      CommentLine \o HashLine,                           \* comments only
      ScenarioText,
      AnnotatedText,
      \* a kept line whose text holds a comment marker after its start
      <<"{">> \o quoted(<<"#">>) \o <<":", " ", "1", ",", " ">>
          \o quoted(S_ignore_codes) \o <<":", "[">> \o SC1 \o <<"]", "}">>,
      <<"{">> \o quoted(S_ignore_codes) \o <<":", " ", "[">> \o SC1,   \* truncated
      <<"[">> \o SC1 \o <<",", "]">>,                    \* trailing comma
      ConfigText(<<SC1>>) \o <<" ", "x">>,               \* extra data
      <<"[">> \o SC1 \o <<"]">>,                         \* top level: array
      SC1,                                               \* top level: string
      <<"7">>,                                           \* top level: number
      <<"n", "u", "l", "l">>,                            \* top level: null
      <<"N", "a", "N">>,                                 \* top level: float
      <<"[", "t", "r", "u", "e", ",", " ", "f", "a", "l", "s", "e", "]">>,
      <<"{", "}">>,                                      \* no ignore_codes key
      <<"{">> \o quoted(S_ignore_codes) \o <<":", " ">> \o SC1 \o <<"}">>,
      <<"{">> \o quoted(S_ignore_codes) \o <<":", " ", "{", "}", "}">>,
      <<"{">> \o quoted(S_ignore_codes) \o <<":", " ", "7", "}">>,
      \* arrays nested beyond the recursion limit: unclosed, and closed
      Repeat("[", RecursionLimit + 1),
      Repeat("[", RecursionLimit + 1) \o Repeat("]", RecursionLimit + 1),
      <<"{">> \o quoted(S_ignore_codes) \o <<":", " ", "[">> \o SC1 \o <<",", " ">>
          \o Repeat("[", RecursionLimit) \o Repeat("]", RecursionLimit)
          \o <<"]", "}">> }

File(mode, text) == [exists |-> TRUE, mode |-> mode, text |-> text]

NoFile == [exists |-> FALSE, mode |-> "utf8", text |-> <<>>]

InitialDisks ==
    {NoFile}
        \cup {File("utf8", ConfigText(es)) : es \in EntrySeqs}
        \cup {File("utf8", t) : t \in OtherTexts}
        \cup {File("legacy", ConfigText(<<SC1>>)),
              File("undecodable", ConfigText(<<SC1>>)),
              File("unreadable", ConfigText(<<SC1>>))}

\* the exceptions the try body of _find_executable raises: __file__ unbound,
\* an attribute missing
InitialBundled ==
    {[isfile |-> f, nt |-> n, exc |-> "none"] : f \in BOOLEAN, n \in BOOLEAN}
        \cup {[isfile |-> FALSE, nt |-> FALSE, exc |-> e] :
                  e \in {"NameError", "AttributeError"}}

Init ==
    /\ which \in {None, WhichPath}
    /\ bundled \in InitialBundled
    /\ disk \in InitialDisks
    /\ inst = NoInstance
    /\ call = Call("none", <<>>, <<>>)

----------------------------------------------------------------------------
(* The handlers *)

\* fault: the config is loaded before the executable is looked at
__init__loads_anyway(w, b, file) ==
    LET f == _find_executable(w, b)
        l == _load_config(file)
    IN  [inst |-> Instance(l.raised, f.path, l.raised = "none", l.codes,
                           IF f.path = None THEN DefaultExecutable ELSE f.path,
                           IF f.path = None THEN DefaultCmd
                           ELSE _build_cmd(f.path, l.codes)),
         call |-> [Call("__init__", <<>>, f.log \o l.log)
                      EXCEPT !.parsed = l.parsed, !.invalid = l.invalid,
                             !.loaded = TRUE, !.built = f.path # None]]

\* ShellCheck.__init__: [inst, call] for the environment it runs in
__init__(w, b, file) ==
    LET f == _find_executable(w, b)
        l == _load_config(file)
    IN  IF f.raised # "none"
        THEN [inst |-> Instance(f.raised, None, FALSE, <<>>,
                                DefaultExecutable, DefaultCmd),
              call |-> Call("__init__", <<>>, f.log)]
        ELSE IF f.path = None
        THEN [inst |-> Instance("none", None, TRUE, <<>>,
                                DefaultExecutable, DefaultCmd),
              call |-> Call("__init__", <<>>, f.log)]
        ELSE IF l.raised # "none"
        THEN [inst |-> Instance(l.raised, f.path, FALSE, <<>>,
                                DefaultExecutable, DefaultCmd),
              call |-> [Call("__init__", <<>>, f.log \o l.log)
                           EXCEPT !.parsed = l.parsed, !.loaded = TRUE]]
        ELSE [inst |-> Instance("none", f.path, TRUE, l.codes, f.path,
                                _build_cmd(f.path, l.codes)),
              call |-> [Call("__init__", <<>>,
                             f.log \o l.log \o <<"Command">>
                                 \o _log_status(l.codes))
                           EXCEPT !.parsed = l.parsed, !.invalid = l.invalid,
                                  !.loaded = TRUE, !.built = TRUE]]

Construct ==
    LET r == __init__(which, bundled, disk)
    IN  /\ UNCHANGED <<which, bundled, disk>>
        /\ inst' = r.inst
        /\ call' = r.call

\* how creating the default config can fail: in os.makedirs, in open(), or in
\* json.dump after open() has created the file
WriteFaults == {"none", "makedirs", "open", "dump"}

\* how much of the document reached the file when json.dump failed
PartialWrites == {0, Len(json_dump(DEFAULT_CONFIG)) \div 2}

\* fault: the isfile() guard is missing, the defaults are always written
config_overwrites(file, fault, n) ==
    [disk |-> File("utf8", json_dump(DEFAULT_CONFIG)),
     call |-> Call("config", <<"file_open">>,
                   <<"Created default config", "Opened config file">>)]

\* fault: the return after the error dialog is missing
config_opens_after_failure(file, fault, n) ==
    IF file.exists \/ fault = "none"
    THEN [disk |-> IF file.exists THEN file
                   ELSE File("utf8", json_dump(DEFAULT_CONFIG)),
          call |-> Call("config", <<"file_open">>, <<"Opened config file">>)]
    ELSE [disk |-> file,
          call |-> Call("config", <<"msg_box MB_ICONERROR", "file_open">>,
                        <<"ERROR - Config creation failed",
                          "Opened config file">>)]

\* Command.config: [disk, call]; fault and n say how the write goes
config(file, fault, n) ==
    IF file.exists
    THEN [disk |-> file,
          call |-> Call("config", <<"file_open">>, <<"Opened config file">>)]
    ELSE IF fault = "none"
    THEN [disk |-> File("utf8", json_dump(DEFAULT_CONFIG)),
          call |-> Call("config", <<"file_open">>,
                        <<"Created default config", "Opened config file">>)]
    ELSE [disk |-> IF fault = "dump"
                   THEN File("utf8", SubSeq(json_dump(DEFAULT_CONFIG), 1, n))
                   ELSE file,
          call |-> Call("config", <<"msg_box MB_ICONERROR">>,
                        <<"ERROR - Config creation failed">>)]

\* the write can go wrong only where there is one
Config ==
    \E fault \in IF disk.exists THEN {"none"} ELSE WriteFaults :
      \E n \in IF fault = "dump" THEN PartialWrites ELSE {0} :
        LET r == config(disk, fault, n)
        IN  /\ UNCHANGED <<which, bundled, inst>>
            /\ disk' = r.disk
            /\ call' = r.call

\* Command.help
Help ==
    /\ UNCHANGED <<which, bundled, disk, inst>>
    /\ call' = Call("help", <<"msg_box MB_OK">>, <<>>)

\* Command.on_lexer
OnLexer ==
    /\ UNCHANGED <<which, bundled, disk, inst>>
    /\ call' = Call("on_lexer", <<>>, <<>>)

\* Command.on_open
OnOpen ==
    /\ UNCHANGED <<which, bundled, disk, inst>>
    /\ call' = Call("on_open", <<>>, <<>>)

Next == Construct \/ Config \/ Help \/ OnLexer \/ OnOpen

Spec == Init /\ [][Next]_vars

----------------------------------------------------------------------------
(* Properties *)

\* the state right after a construction; the file on disk is the one it saw
JustConstructed == inst.constructed /\ call.op = "__init__"

\* ... in which _load_config ran
JustLoaded == JustConstructed /\ call.loaded

Readable == disk.exists /\ disk.mode \in {"utf8", "legacy"}

\* what the document on disk decodes to
Document == json_loads(strip_comments(disk.text))

IgnoreCodesValue == dict_get(Document.v, S_ignore_codes, JArr(<<>>))

\* the document is an object whose ignore_codes is an array (or is missing)
HasArray ==
    /\ Readable
    /\ strip_comments(disk.text) # <<>>
    /\ Document.st = "ok"
    /\ Document.v.t = "obj"
    /\ IgnoreCodesValue.t = "arr"

\* the document is not JSON, not an object, or its ignore_codes is no array
Malformed ==
    /\ Readable
    /\ strip_comments(disk.text) # <<>>
    /\ \/ Document.st # "ok"
       \/ Document.v.t # "obj"
       \/ IgnoreCodesValue.t # "arr"

Entries == IgnoreCodesValue.a

\* a string matching ^SC[0-9]+$
MatchesAsciiPattern(c) ==
    /\ c.t = "str"
    /\ Len(c.s) >= 3
    /\ c.s[1] = "S" /\ c.s[2] = "C"
    /\ \A i \in 3..Len(c.s) : c.s[i] \in AsciiDigits

\* a string matching SC\d+, \d read as any decimal digit
MatchesDecimalPattern(c) ==
    /\ c.t = "str"
    /\ Len(c.s) >= 3
    /\ c.s[1] = "S" /\ c.s[2] = "C"
    /\ \A i \in 3..Len(c.s) : c.s[i] \in AsciiDigits \cup {"U+0663"}

Strings(vals) == [i \in 1..Len(vals) |-> vals[i].s]

\* C1: no exception leaves ShellCheck.__init__ or _load_config: whatever the
\* environment and the config file, the instance ends with ignore_codes set.
C1_ConstructionNeverRaises ==
    inst.constructed => inst.raised = "none" /\ inst.has_ignore_codes

\* C2: an entry of the ignore_codes array is kept if and only if it is a
\* string matching ^SC[0-9]+$.
C2_KeptIffAsciiPattern ==
    (JustLoaded /\ HasArray /\ inst.raised = "none") =>
        \A i \in 1..Len(Entries) :
            MatchesAsciiPattern(Entries[i])
                <=> /\ Entries[i].t = "str"
                    /\ \E j \in 1..Len(inst.ignore_codes) :
                           inst.ignore_codes[j] = Entries[i].s

\* C3: the loaded sequence is the array's entries matching SC\d+, in their
\* order, duplicates kept; it is the whole array when every entry matches.
C3_LoadedIsMatchingSubsequence ==
    (JustLoaded /\ HasArray /\ inst.raised = "none") =>
        inst.ignore_codes = Strings(SelectSeq(Entries, MatchesDecimalPattern))

\* C4: a malformed config (not JSON, not an object, ignore_codes not an
\* array) loads as the empty sequence and nothing is raised.
C4_MalformedLoadsEmpty ==
    (JustLoaded /\ Malformed) =>
        /\ inst.raised = "none"
        /\ inst.has_ignore_codes
        /\ inst.ignore_codes = <<>>

\* C5: the command is the path, "-f", "gcc", "-", then one "-e" pair per
\* ignore code in the order of the codes: 4 + 2n tokens.
C5_CommandIsPathFlagsPairs ==
    (inst.constructed /\ inst.raised = "none" /\ inst.shellcheck_path # None) =>
        /\ Len(inst.cmd) = 4 + 2 * Len(inst.ignore_codes)
        /\ inst.cmd[1] = inst.shellcheck_path
        /\ inst.cmd[2] = <<"-", "f">>
        /\ inst.cmd[3] = <<"g", "c", "c">>
        /\ inst.cmd[4] = <<"-">>
        /\ \A i \in 1..Len(inst.ignore_codes) :
               /\ inst.cmd[3 + 2 * i] = <<"-", "e">>
               /\ inst.cmd[4 + 2 * i] = inst.ignore_codes[i]

\* a command built for a code given twice
C5_Witness ==
    /\ JustConstructed /\ call.built
    /\ Len(inst.ignore_codes) = 2
    /\ inst.ignore_codes[1] = inst.ignore_codes[2]

\* C6: a search-path hit is what is returned, bundled file or not; another
\* path is returned only when the lookup failed and the bundled file exists;
\* with neither, nothing is returned.
C6_SearchPathFirst ==
    inst.constructed =>
        /\ which # None => inst.shellcheck_path = which
        /\ (inst.shellcheck_path # None /\ inst.shellcheck_path # which)
               => (which = None /\ bundled.exc = "none" /\ bundled.isfile)
        /\ (which = None /\ ~ (bundled.exc = "none" /\ bundled.isfile))
               => inst.shellcheck_path = None

\* both the search path and the bundle hold the tool
C6_Witness ==
    /\ inst.constructed
    /\ which # None /\ bundled.exc = "none" /\ bundled.isfile
    /\ inst.shellcheck_path = which

\* C7: with no executable on the search path or bundled, the instance has
\* no ignore codes and the class's default command, the config was not
\* loaded, no command was built and nothing was raised.
C7_DisabledState ==
    (inst.constructed /\ which = None
         /\ ~ (bundled.exc = "none" /\ bundled.isfile)) =>
        /\ inst.raised = "none"
        /\ inst.has_ignore_codes /\ inst.ignore_codes = <<>>
        /\ inst.shellcheck_path = None
        /\ inst.executable = DefaultExecutable /\ inst.cmd = DefaultCmd
        /\ call.op = "__init__" => ~ call.loaded /\ ~ call.built

\* disabled although the config file holds a code
C7_Witness ==
    /\ JustConstructed
    /\ inst.shellcheck_path = None
    /\ disk = File("utf8", ConfigText(<<SC1>>))

\* the end of the line that holds position i
LineTo(text, i) ==
    Min({Len(text)} \cup {k \in i..Len(text) : text[k] = "\n"})

Blank == {" ", "\n", "\t"}

\* the line from position i on has text, and its text opens with neither
\* '//' nor '#'
IsKeptLine(text, i) ==
    LET ink == {k \in i..LineTo(text, i) : text[k] \notin Blank}
    IN  /\ ink # {}
        /\ text[Min(ink)] # "#"
        /\ ~ (text[Min(ink)] = "/" /\ Min(ink) < Len(text)
                  /\ text[Min(ink) + 1] = "/")

\* the kept lines among the lines from position i on, one after the other
RECURSIVE KeptFrom(_, _)
KeptFrom(text, i) ==
    IF i > Len(text) THEN <<>>
    ELSE (IF IsKeptLine(text, i) THEN SubSeq(text, i, LineTo(text, i))
          ELSE <<>>)
             \o KeptFrom(text, LineTo(text, i) + 1)

KeptText(text) == KeptFrom(text, 1)

Trimmed(s) ==
    LET ink == {k \in 1..Len(s) : s[k] \notin Blank}
    IN  [n \in 1..(IF ink = {} THEN 0 ELSE Max(ink) - Min(ink) + 1) |->
             s[Min(ink) + n - 1]]

Scenario ==
    /\ JustLoaded
    /\ disk = File("utf8", ScenarioText)

ScenarioLoads ==
    Scenario =>
        /\ inst.ignore_codes = << <<"S", "C", "2", "0", "3", "4">>,
                                  <<"S", "C", "9", "9">> >>
        /\ Len(call.invalid) = 1

\* C8 as stated: the text handed to json.loads is exactly the kept lines,
\* concatenated, and the scenario file loads SC2034, SC99 with one entry
\* reported invalid.
C8_ParsedIsKeptLines ==
    /\ (JustLoaded /\ Readable) => call.parsed = KeptText(disk.text)
    /\ ScenarioLoads

\* C8 amended: the text handed to json.loads is the concatenation of the
\* kept lines with the whitespace at its two ends removed (nothing is handed
\* over when that is empty), and the scenario file loads SC2034, SC99 with
\* one entry reported invalid.
C8_ParsedIsTrimmedKeptLines ==
    /\ (JustLoaded /\ Readable) => call.parsed = Trimmed(KeptText(disk.text))
    /\ ScenarioLoads

C8_Witness ==
    /\ Scenario
    /\ call.parsed # None
    /\ Len(inst.ignore_codes) = 2

\* C9: only Command.config writes the config file, and only when there is
\* none: construction never changes it and an existing file is left as it is.
C9_OnlyConfigCreatesTheFile ==
    [][disk' # disk => (~ disk.exists /\ call'.op = "config")]_vars

\* config-open after a construction, on a file that was there from the start
C9_Witness ==
    /\ call.op = "config"
    /\ inst.constructed
    /\ call.host = <<"file_open">>
    /\ disk = File("utf8", ConfigText(<<SC1>>))

\* C10: when the file is absent and the default document does not get
\* written, Command.config shows the error dialog, logs the failure and does
\* not ask the host to open the file; otherwise it asks the host to open the
\* file exactly once, shows no dialog, and the file exists by then.
C10_ConfigOutcome ==
    [][call'.op = "config" =>
          IF ~ disk.exists /\ disk' # File("utf8", json_dump(DEFAULT_CONFIG))
          THEN /\ call'.host = <<"msg_box MB_ICONERROR">>
               /\ \E i \in 1..Len(call'.log) :
                      call'.log[i] = "ERROR - Config creation failed"
          ELSE /\ call'.host = <<"file_open">>
               /\ disk'.exists]_vars

\* a failed creation that left no file
C10_Witness ==
    /\ call.op = "config"
    /\ ~ disk.exists
    /\ call.host = <<"msg_box MB_ICONERROR">>

====
